---- MODULE Spec2Model ----
(***************************************************************************)
(* Object-name resolution of vhdl_lang (analysis/names.rs).                *)
(*                                                                         *)
(* A Name is a chain: every variant of Name that resolve_object_prefix     *)
(* recurses into has exactly one prefix, so a name tree is the sequence of *)
(* its nodes from the innermost (index 1, a Designator or an External) to  *)
(* the outermost (index Len(name)).  The SrcPos of node k is k; the caller *)
(* passes the position of the whole name as name_pos.                      *)
(***************************************************************************)
EXTENDS Integers, Sequences, FiniteSets, TLC

(* ------------------------------ bounds --------------------------------- *)
\* number of suffix nodes above the innermost node of a name
MaxDepth == 2
\* number of index expressions of an Indexed / FunctionCall node
MaxIndexes == 2
\* longest token stream handed to the list parser
MaxTokens == 5

(* --------------------------- entity taxonomy --------------------------- *)
NoEnt == "none"

\* the declarations of the analysed design
Entities == {"pkg", "r", "a", "p", "rec_t", "arr_t", "bit_t", "prot_t", "f", "fa", "m1", "m2"}

\* NamedEntity::kind(): the declared kind
kind(e) ==
    CASE e \in {"r", "p"} -> "Object"
      [] e = "a" -> "ObjectAlias"
      [] e \in {"rec_t", "arr_t", "bit_t", "prot_t"} -> "Type"
      [] e = "f" -> "ElementDeclaration"
      [] e = "fa" -> "NonObjectAlias"
      [] OTHER -> "Other"

\* the entity an alias stands for
AliasTarget(e) == IF e = "fa" THEN "f" ELSE e

\* NamedEntity::actual_kind(): the kind resolved through aliases
actual_kind(e) == kind(AliasTarget(e))

\* subtype.type_mark() of an Object or an ElementDeclaration
SubtypeTypeMark(e) ==
    CASE e = "r" -> "rec_t"
      [] e = "p" -> "prot_t"
      [] e = "f" -> "arr_t"
      [] OTHER -> NoEnt

\* the fields of NamedEntityKind::ObjectAlias
AliasBaseObject(e) == IF e = "a" THEN "r" ELSE NoEnt
AliasTypeMark(e) == IF e = "a" THEN "rec_t" ELSE NoEnt

\* the element type of an array type
ElemType(t) == IF t = "arr_t" THEN "bit_t" ELSE NoEnt

ExternalObjectClass == {"Constant", "Signal", "Variable"}

(* ------------------------------ results -------------------------------- *)
TypeAsPrefix == "Type may not be the prefix of a selected name"

\* the error messages callers pass as err_msg
ErrMsgs == {"Invalid assignment target", "Invalid alias name"}

Blank == [st |-> "None", tag |-> "-", ent |-> NoEnt, base |-> NoEnt, type |-> NoEnt,
          class |-> "-", set |-> {}, pos |-> 0, msg |-> "-"]

\* ResolvedName, wrapped in Ok
NonObject(e) == [Blank EXCEPT !.st = "Ok", !.tag = "NonObject", !.ent = e]
Type(t) == [Blank EXCEPT !.st = "Ok", !.tag = "Type", !.ent = t]
Overloaded(s) == [Blank EXCEPT !.st = "Ok", !.tag = "Overloaded", !.set = s]
ObjectSelection(b, t) ==
    [Blank EXCEPT !.st = "Ok", !.tag = "ObjectSelection", !.base = b, !.type = t]
ExternalName(c, t) ==
    [Blank EXCEPT !.st = "Ok", !.tag = "ExternalName", !.class = c, !.type = t]
\* Diagnostic::error(pos, msg) returned as Err
Err(p, m) == [Blank EXCEPT !.st = "Err", !.pos = p, !.msg = m]
\* a fatal error of a collaborator, returned through `?`
Fatal(p, m) == [Blank EXCEPT !.st = "Err", !.tag = "Fatal", !.pos = p, !.msg = m]
\* panic of debug_assert! / unreachable!
Panic == [Blank EXCEPT !.st = "Panic"]

IsOk(x) == x.st = "Ok"

(* ---------------- ResolvedName::new / with_suffix ----------------------- *)
\* TypeEnt::from_any succeeds exactly on a Type entity
IsTypeEnt(e) == kind(e) = "Type"

\* new that takes an object alias for the object it stands for
new_AliasIsObject(ent) ==
    CASE kind(ent) \in {"Object", "ObjectAlias"} ->
            ObjectSelection(ent, IF kind(ent) = "Object" THEN SubtypeTypeMark(ent)
                                 ELSE AliasTypeMark(ent))
      [] kind(ent) = "Type" -> IF IsTypeEnt(ent) THEN Type(ent) ELSE Panic
      [] OTHER -> NonObject(ent)

\* ResolvedName::new, lines 32-51; TypeEnt::from_any(ent).unwrap() panics on Err
new(ent) ==
    CASE kind(ent) = "Object" -> ObjectSelection(ent, SubtypeTypeMark(ent))
      [] kind(ent) = "ObjectAlias" -> ObjectSelection(AliasBaseObject(ent), AliasTypeMark(ent))
      [] kind(ent) = "Type" -> IF IsTypeEnt(ent) THEN Type(ent) ELSE Panic
      [] OTHER -> NonObject(ent)

\* with_suffix that takes the selected entity as the base object
with_suffix_Rebased(state, ent, dbg) ==
    IF kind(ent) \in {"Object", "ObjectAlias"}
    THEN IF dbg /\ state.tag # "NonObject" THEN Panic ELSE new(ent)
    ELSE CASE state.tag = "NonObject" ->
                IF IsTypeEnt(ent) THEN Type(ent) ELSE NonObject(ent)
           [] state.tag = "Type" -> Err(0, TypeAsPrefix)
           [] state.tag = "ObjectSelection" ->
                IF actual_kind(ent) = "ElementDeclaration"
                THEN ObjectSelection(ent, SubtypeTypeMark(AliasTarget(ent)))
                ELSE NonObject(ent)
           [] state.tag = "ExternalName" ->
                IF actual_kind(ent) = "ElementDeclaration"
                THEN ExternalName(state.class, SubtypeTypeMark(AliasTarget(ent)))
                ELSE NonObject(ent)
           [] OTHER -> Panic

\* with_suffix that looks at the declared kind of the suffix, not through aliases
with_suffix_DeclaredKind(state, ent, dbg) ==
    IF kind(ent) \in {"Object", "ObjectAlias"}
    THEN IF dbg /\ state.tag # "NonObject" THEN Panic ELSE new(ent)
    ELSE CASE state.tag = "NonObject" ->
                IF IsTypeEnt(ent) THEN Type(ent) ELSE NonObject(ent)
           [] state.tag = "Type" -> Err(0, TypeAsPrefix)
           [] state.tag = "ObjectSelection" ->
                IF kind(ent) = "ElementDeclaration"
                THEN ObjectSelection(state.base, SubtypeTypeMark(ent))
                ELSE NonObject(ent)
           [] state.tag = "ExternalName" ->
                IF kind(ent) = "ElementDeclaration"
                THEN ExternalName(state.class, SubtypeTypeMark(ent))
                ELSE NonObject(ent)
           [] OTHER -> Panic

\* dbg: the build has debug assertions enabled (debug_assert! is compiled in)
with_suffix(state, ent, dbg) ==
    IF kind(ent) \in {"Object", "ObjectAlias"}
    THEN IF dbg /\ state.tag # "NonObject" THEN Panic ELSE new(ent)
    ELSE CASE state.tag = "NonObject" ->
                IF IsTypeEnt(ent) THEN Type(ent) ELSE NonObject(ent)
           [] state.tag = "Type" -> Err(0, TypeAsPrefix)
           [] state.tag = "ObjectSelection" ->
                IF actual_kind(ent) = "ElementDeclaration"
                THEN ObjectSelection(state.base, SubtypeTypeMark(AliasTarget(ent)))
                ELSE NonObject(ent)
           [] state.tag = "ExternalName" ->
                IF actual_kind(ent) = "ElementDeclaration"
                THEN ExternalName(state.class, SubtypeTypeMark(AliasTarget(ent)))
                ELSE NonObject(ent)
           [] OTHER -> Panic

(* ------------------------- scope (collaborator) ------------------------ *)
Designators == {"r", "a", "p", "pkg", "rec_t", "m", "f"}
SuffixDesignators == {"r", "rec_t", "m", "f"}

Single(e) == [st |-> "Single", ent |-> e, set |-> {}]
Many(s) == [st |-> "Overloaded", ent |-> NoEnt, set |-> s]
Unknown == [st |-> "Failed", ent |-> NoEnt, set |-> {}]

\* Region::lookup: the declarations visible in the region
lookup(des) ==
    CASE des \in {"r", "a", "p", "pkg", "rec_t"} -> Single(des)
      [] des = "m" -> Many({"m1", "m2"})
      [] OTHER -> Unknown

\* lookup_selected: the declarations of package pkg
lookup_selected(ent, des) ==
    IF ent = "pkg"
    THEN CASE des \in {"r", "rec_t"} -> Single(des)
           [] des = "m" -> Many({"m1", "m2"})
           [] OTHER -> Unknown
    ELSE Unknown

\* lookup_type_selected: the fields of a record, the operations of a protected type
lookup_type_selected(type_mark, des) ==
    CASE type_mark = "rec_t" /\ des = "f" -> Single("f")
      [] type_mark = "prot_t" /\ des = "m" -> Many({"m1", "m2"})
      [] OTHER -> Unknown

(* --------------------- type analysis (collaborators) ------------------- *)
\* the outcome of analysing one expression: well-typed, ill-typed (a
\* diagnostic is pushed and analysis goes on) or a fatal error returned as Err
ExprOutcomes == {"ok", "diag", "fatal"}
IndexOutcomes == {"ok", "fatal"}

\* position of the first expression whose analysis returns Err, 0 if none
FirstFatal(idx) ==
    IF \E i \in 1..Len(idx) : idx[i] = "fatal"
    THEN CHOOSE i \in 1..Len(idx) : idx[i] = "fatal" /\ \A j \in 1..(i - 1) : idx[j] # "fatal"
    ELSE 0

\* number of expressions a loop with `?` over idx analyses
Analysed(idx) == IF FirstFatal(idx) = 0 THEN Len(idx) ELSE FirstFatal(idx)

\* analyze_indexed_name: the element type of an array type, after validating
\* the arity and the index expressions
analyze_indexed_name(k, type_mark, idx) ==
    IF ElemType(type_mark) = NoEnt THEN Fatal(k - 1, "cannot be indexed")
    ELSE IF FirstFatal(idx) # 0 THEN Fatal(k, "index expression")
    ELSE Type(ElemType(type_mark))

\* the diagnostics analyze_indexed_name pushes
IndexedDiagnostics(k, type_mark, idx) ==
    IF ElemType(type_mark) # NoEnt /\ Len(idx) # 1
    THEN {<<k, "dimension mismatch">>} ELSE {}

\* analyze_sliced_name: the type mark must be an array type
analyze_sliced_name(k, type_mark) ==
    IF ElemType(type_mark) = NoEnt THEN Fatal(k - 1, "cannot be sliced") ELSE Blank

\* analyze_discrete_range
analyze_discrete_range(k, rng) ==
    IF rng = "fatal" THEN Fatal(k, "discrete range") ELSE Blank

RangeDiagnostics(k, rng) == IF rng = "diag" THEN {<<k, "range type mismatch">>} ELSE {}

\* resolve_subtype_indication of the subtype of an external name
Subtypes == {"rec_t", "arr_t", "prot_t", "unknown_t"}
resolve_subtype_indication(k, subtype) ==
    IF subtype \in Entities /\ kind(subtype) = "Type"
    THEN Type(subtype) ELSE Fatal(k, "No declaration of subtype")

(* -------------------------------- names -------------------------------- *)
Node == [kind |-> "-", des |-> "-", ref |-> NoEnt, idx |-> <<>>, rng |-> "-",
         indexable |-> FALSE, class |-> "-", subtype |-> "-"]

IndexLists == UNION {[1..n -> IndexOutcomes] : n \in 1..MaxIndexes}

\* the innermost node of a name; s is the content of its reference cell
LeafNodes(s) ==
    {[Node EXCEPT !.kind = "Designator", !.des = d, !.ref = s] : d \in Designators}
    \cup {[Node EXCEPT !.kind = "External", !.class = c, !.subtype = t] :
             c \in ExternalObjectClass, t \in Subtypes}

\* the nodes that have a prefix
SuffixNodes(s) ==
    {[Node EXCEPT !.kind = "Selected", !.des = d, !.ref = s] : d \in SuffixDesignators}
    \cup {[Node EXCEPT !.kind = "SelectedAll"], [Node EXCEPT !.kind = "Attribute"],
          [Node EXCEPT !.kind = "FunctionCall"]}
    \cup {[Node EXCEPT !.kind = "Indexed", !.idx = i] : i \in IndexLists}
    \cup {[Node EXCEPT !.kind = "FunctionCall", !.indexable = TRUE, !.idx = i] : i \in IndexLists}
    \cup {[Node EXCEPT !.kind = "Slice", !.rng = g] : g \in ExprOutcomes}

\* nm is a name of at most MaxDepth suffix nodes whose reference cells hold s
IsName(nm, s) ==
    \E d \in 0..MaxDepth : \E l \in LeafNodes(s) : \E t \in [1..d -> SuffixNodes(s)] :
        nm = <<l>> \o t

\* FunctionCall::to_indexed: Some((prefix, indexes)) for a positional argument list
to_indexed(node) == node.indexable

Collaborators == {"lookup", "lookup_selected", "lookup_type_selected", "with_suffix",
                  "analyze_indexed_name", "analyze_expression", "analyze_sliced_name",
                  "analyze_discrete_range", "resolve_subtype_indication"}

(* -------------------------------- state -------------------------------- *)
VARIABLES
    name,              \* the Name being resolved, mutated in place
    err_msg,           \* the caller's error message
    pc,                \* [mode, k]: the frame of node k is called / resumed
    results,           \* results[k]: what the frame of node k returned in this call
    diagnostics,       \* the diagnostics sink of this call
    calls,             \* calls[c][k]: calls of collaborator c by the frame of node k
    lookups,           \* lookups[k]: what this call's lookup for the slot of node k returned
    visited,           \* the nodes this call dispatched on
    rewrites,          \* the FunctionCall nodes this call rewrote to Indexed
    run,               \* 1: first resolution, 2: second resolution of the same tree
    first,             \* result and diagnostics of the first resolution
    ws_self,           \* with_suffix applied on its own: the state,
    ws_ent,            \*   the suffix entity,
    ws_dbg,            \*   whether the build has debug assertions enabled
    ws_out,            \*   and the result
    new_out,           \* ResolvedName::new applied on its own to ws_ent: the result
    stream,            \* parse_list_with_separator: the kinds of the tokens of the stream,
    cursor,            \*   the position of the next token of the stream,
    items,             \*   the items parsed, each named by the position of its token,
    tokens,            \*   the separator tokens pushed, each named by its position,
    emitted,           \*   the diagnostics this call emitted
    list_pc            \*   and where the call is: "first", "loop", or returned "Ok" / "Err"

vars == <<name, err_msg, pc, results, diagnostics, calls, lookups, visited, rewrites,
          run, first, ws_self, ws_ent, ws_dbg, ws_out, new_out,
          stream, cursor, items, tokens, emitted, list_pc>>

parser == <<stream, cursor, items, tokens, emitted, list_pc>>

pure == <<ws_self, ws_ent, ws_dbg, ws_out, new_out, parser>>

walker == <<name, err_msg, pc, results, diagnostics, calls, lookups, visited, rewrites,
            run, first>>

N == Len(name)

\* a reference left in a cell by an earlier analysis
Stale == "bit_t"

Unreached == [st |-> "Unreached", ent |-> NoEnt, set |-> {}]
NoCalls == [c \in Collaborators |-> [k \in 1..N |-> 0]]
NoLookups == [k \in 1..N |-> Unreached]
NoResults == [k \in 1..N |-> Blank]
NoFirst == [res |-> Blank, diagnostics |-> {}, rewrites |-> {}, results |-> NoResults,
            calls |-> NoCalls]

\* no list is being parsed
NoList ==
    /\ stream = <<>> /\ cursor = 1 /\ items = <<>> /\ tokens = <<>>
    /\ emitted = <<>> /\ list_pc = "idle"

Init ==
    /\ \E s \in {NoEnt, Stale} : IsName(name, s)
    /\ err_msg \in ErrMsgs
    /\ pc = [mode |-> "call", k |-> N]
    /\ results = NoResults
    /\ diagnostics = {}
    /\ calls = NoCalls
    /\ lookups = NoLookups
    /\ visited = {}
    /\ rewrites = {}
    /\ run = 1
    /\ first = NoFirst
    /\ ws_self = Blank /\ ws_ent = NoEnt /\ ws_dbg = FALSE /\ ws_out = Blank
    /\ new_out = Blank
    /\ NoList

(* ------------------------ resolve_object_prefix ------------------------- *)
\* where the frame of node k returns to
Return(k, r) ==
    IF r.st = "Panic" THEN [mode |-> "panic", k |-> k]
    ELSE IF k = N THEN [mode |-> "done", k |-> k]
    ELSE [mode |-> "ret", k |-> k + 1]

At(mode, knd) == pc.mode = mode /\ name[pc.k].kind = knd

\* what the recursive call on the prefix returned to the resumed frame
Prefix == results[pc.k - 1]

Returned(k, r) == [results EXCEPT ![k] = r]

\* Name::Selected that resolves the prefix without clearing the suffix reference
CallSelected_NoClear ==
    /\ At("call", "Selected")
    /\ visited' = visited \cup {pc.k}
    /\ pc' = [mode |-> "call", k |-> pc.k - 1]
    /\ UNCHANGED <<name, err_msg, results, diagnostics, calls, lookups, run, first, rewrites,
                   pure>>

\* Name::Selected, lines 110-119: clear the suffix reference, resolve the prefix
CallSelected ==
    /\ At("call", "Selected")
    /\ name' = [name EXCEPT ![pc.k].ref = NoEnt]
    /\ visited' = visited \cup {pc.k}
    /\ pc' = [mode |-> "call", k |-> pc.k - 1]
    /\ UNCHANGED <<err_msg, results, diagnostics, calls, lookups, run, first, rewrites,
                   pure>>

\* SuffixLookup that also looks the suffix up in a Type prefix
SuffixLookup_InTypes(resolved, des) ==
    CASE resolved.tag = "NonObject" -> lookup_selected(resolved.ent, des)
      [] resolved.tag \in {"ObjectSelection", "ExternalName"} ->
            lookup_type_selected(resolved.type, des)
      [] resolved.tag = "Type" -> lookup_type_selected(resolved.ent, des)
      [] OTHER -> Unreached

\* the suffix lookup the prefix's resolution selects, lines 121-170
SuffixLookup(resolved, des) ==
    CASE resolved.tag = "NonObject" -> lookup_selected(resolved.ent, des)
      [] resolved.tag \in {"ObjectSelection", "ExternalName"} ->
            lookup_type_selected(resolved.type, des)
      [] OTHER -> Unreached

SuffixLookupName(resolved) ==
    IF resolved.tag = "NonObject" THEN "lookup_selected" ELSE "lookup_type_selected"

\* SelectedResult that forwards an overloaded suffix whatever the prefix is
SelectedResult_ForwardsOverloaded(k, resolved, des, msg, dbg) ==
    LET l == SuffixLookup(resolved, des) IN
    CASE l.st = "Single" ->
            LET w == with_suffix(resolved, l.ent, dbg) IN
            IF w.st = "Err" THEN Err(k, w.msg) ELSE w
      [] l.st = "Overloaded" -> Overloaded(l.set)
      [] l.st = "Failed" -> Err(k, "No declaration")
      [] OTHER -> Err(k, msg)

\* the result of a Selected node whose prefix resolved to Ok(resolved), lines 121-170
SelectedResult(k, resolved, des, msg, dbg) ==
    LET l == SuffixLookup(resolved, des) IN
    CASE l.st = "Single" ->
            LET w == with_suffix(resolved, l.ent, dbg) IN
            IF w.st = "Err" THEN Err(k, w.msg) ELSE w
      [] l.st = "Overloaded" ->
            IF resolved.tag = "NonObject" THEN Overloaded(l.set) ELSE Err(k, msg)
      [] l.st = "Failed" -> Err(k, "No declaration")
      [] OTHER -> Err(k, msg)

\* Name::Selected after the prefix returned, lines 119-170; the build may or
\* may not have debug assertions enabled
ReturnSelected ==
    /\ At("ret", "Selected")
    /\ \E dbg \in BOOLEAN :
       LET k == pc.k
           l == SuffixLookup(Prefix, name[k].des)
           r == IF IsOk(Prefix)
                THEN SelectedResult(k, Prefix, name[k].des, err_msg, dbg)
                ELSE Prefix
       IN /\ results' = Returned(k, r)
          /\ pc' = Return(k, r)
          /\ name' = IF IsOk(Prefix) /\ l.st = "Single"
                     THEN [name EXCEPT ![k].ref = l.ent] ELSE name
          /\ lookups' = IF IsOk(Prefix) THEN [lookups EXCEPT ![k] = l] ELSE lookups
          /\ calls' = IF IsOk(Prefix) /\ l.st # "Unreached"
                      THEN [calls EXCEPT ![SuffixLookupName(Prefix)][k] = @ + 1,
                                         !["with_suffix"][k] =
                                             IF l.st = "Single" THEN @ + 1 ELSE @]
                      ELSE calls
    /\ UNCHANGED <<err_msg, diagnostics, visited, run, first, rewrites, pure>>

\* Name::SelectedAll, lines 172-178: resolve the prefix
CallSelectedAll ==
    /\ At("call", "SelectedAll")
    /\ visited' = visited \cup {pc.k}
    /\ pc' = [mode |-> "call", k |-> pc.k - 1]
    /\ UNCHANGED <<name, err_msg, results, diagnostics, calls, lookups, run, first,
                   rewrites, pure>>

\* Name::SelectedAll: the prefix's resolution is the result
ReturnSelectedAll ==
    /\ At("ret", "SelectedAll")
    /\ results' = Returned(pc.k, Prefix)
    /\ pc' = Return(pc.k, Prefix)
    /\ UNCHANGED <<name, err_msg, diagnostics, calls, lookups, visited, run, first,
                   rewrites, pure>>

\* the result of a Designator node, lines 182-191
DesignatorResult(k, des) ==
    LET l == lookup(des) IN
    CASE l.st = "Single" -> new(l.ent)
      [] l.st = "Overloaded" -> Overloaded(l.set)
      [] OTHER -> Err(k, "No declaration")

\* the reference cell of a Designator node after the call, lines 180-184
DesignatorReference(des) ==
    IF lookup(des).st = "Single" THEN lookup(des).ent ELSE NoEnt

\* Name::Designator, lines 179-192
Designator ==
    /\ At("call", "Designator")
    /\ LET k == pc.k
           r == DesignatorResult(k, name[k].des)
       IN /\ name' = [name EXCEPT ![k].ref = DesignatorReference(name[k].des)]
          /\ results' = Returned(k, r)
          /\ pc' = Return(k, r)
          /\ lookups' = [lookups EXCEPT ![k] = lookup(name[k].des)]
          /\ calls' = [calls EXCEPT !["lookup"][k] = @ + 1]
          /\ visited' = visited \cup {k}
    /\ UNCHANGED <<err_msg, diagnostics, run, first, rewrites, pure>>

\* Name::Indexed, lines 193-200: resolve the prefix
CallIndexed ==
    /\ At("call", "Indexed")
    /\ visited' = visited \cup {pc.k}
    /\ pc' = [mode |-> "call", k |-> pc.k - 1]
    /\ UNCHANGED <<name, err_msg, results, diagnostics, calls, lookups, run, first,
                   rewrites, pure>>

IsObjectSelection(r) == IsOk(r) /\ r.tag = "ObjectSelection"

\* IndexedResult that keeps the type mark of the prefix
IndexedResult_KeepsType(k, resolved, idx, msg) ==
    IF IsObjectSelection(resolved)
    THEN LET e == analyze_indexed_name(k, resolved.type, idx) IN
         IF IsOk(e) THEN ObjectSelection(resolved.base, resolved.type) ELSE e
    ELSE IF FirstFatal(idx) # 0 THEN Fatal(k, "expression")
    ELSE Err(k - 1, msg)

\* IndexedResult that also indexes the type mark of an external name
IndexedResult_IndexesExternal(k, resolved, idx, msg) ==
    IF IsObjectSelection(resolved)
    THEN LET e == analyze_indexed_name(k, resolved.type, idx) IN
         IF IsOk(e) THEN ObjectSelection(resolved.base, e.ent) ELSE e
    ELSE IF IsOk(resolved) /\ resolved.tag = "ExternalName"
    THEN LET e == analyze_indexed_name(k, resolved.type, idx) IN
         IF IsOk(e) THEN ExternalName(resolved.class, e.ent) ELSE e
    ELSE IF FirstFatal(idx) # 0 THEN Fatal(k, "expression")
    ELSE Err(k - 1, msg)

\* the result of an Indexed node whose prefix returned resolved, lines 201-224
IndexedResult(k, resolved, idx, msg) ==
    IF IsObjectSelection(resolved)
    THEN LET e == analyze_indexed_name(k, resolved.type, idx) IN
         IF IsOk(e) THEN ObjectSelection(resolved.base, e.ent) ELSE e
    ELSE IF FirstFatal(idx) # 0 THEN Fatal(k, "expression")
    ELSE Err(k - 1, msg)

\* IndexedExpressions that analyses no index expression once the prefix failed
IndexedExpressions_FailFast(resolved, idx) ==
    IF IsObjectSelection(resolved) \/ resolved.st = "Err" THEN 0 ELSE Analysed(idx)

\* the number of analyze_expression calls of an Indexed node, lines 220-222
IndexedExpressions(resolved, idx) ==
    IF IsObjectSelection(resolved) THEN 0 ELSE Analysed(idx)

\* Name::Indexed after the prefix returned, lines 201-225
ReturnIndexed ==
    /\ At("ret", "Indexed")
    /\ LET k == pc.k
           r == IndexedResult(k, Prefix, name[k].idx, err_msg)
       IN /\ results' = Returned(k, r)
          /\ pc' = Return(k, r)
          /\ diagnostics' = IF IsObjectSelection(Prefix)
                            THEN diagnostics \cup IndexedDiagnostics(k, Prefix.type, name[k].idx)
                            ELSE diagnostics
          /\ calls' = [calls EXCEPT
                          !["analyze_indexed_name"][k] =
                              IF IsObjectSelection(Prefix) THEN @ + 1 ELSE @,
                          !["analyze_expression"][k] =
                              @ + IndexedExpressions(Prefix, name[k].idx)]
    /\ UNCHANGED <<name, err_msg, lookups, visited, run, first, rewrites, pure>>

\* Name::Slice, lines 227-234: resolve the prefix
CallSlice ==
    /\ At("call", "Slice")
    /\ visited' = visited \cup {pc.k}
    /\ pc' = [mode |-> "call", k |-> pc.k - 1]
    /\ UNCHANGED <<name, err_msg, results, diagnostics, calls, lookups, run, first,
                   rewrites, pure>>

\* analyze_sliced_name returned Err, line 237
SlicedFails(k, resolved) ==
    IsObjectSelection(resolved) /\ analyze_sliced_name(k, resolved.type).st = "Err"

\* RangeAnalyses that skips the range once the prefix failed
RangeAnalyses_FailFast(k, resolved) ==
    IF SlicedFails(k, resolved) \/ resolved.st = "Err" THEN 0 ELSE 1

\* the number of analyze_discrete_range calls of a Slice node, lines 236-240
RangeAnalyses(k, resolved) == IF SlicedFails(k, resolved) THEN 0 ELSE 1

\* SliceResult that rejects every prefix that is not an object
SliceResult_ObjectsOnly(k, resolved, rng) ==
    IF SlicedFails(k, resolved) THEN analyze_sliced_name(k, resolved.type)
    ELSE IF analyze_discrete_range(k, rng).st = "Err" THEN analyze_discrete_range(k, rng)
    ELSE IF IsOk(resolved) /\ ~IsObjectSelection(resolved) THEN Err(k - 1, err_msg)
    ELSE resolved

\* the result of a Slice node whose prefix returned resolved, lines 236-241
SliceResult(k, resolved, rng) ==
    IF SlicedFails(k, resolved) THEN analyze_sliced_name(k, resolved.type)
    ELSE IF analyze_discrete_range(k, rng).st = "Err" THEN analyze_discrete_range(k, rng)
    ELSE resolved

\* Name::Slice after the prefix returned, lines 236-242
ReturnSlice ==
    /\ At("ret", "Slice")
    /\ LET k == pc.k
           r == SliceResult(k, Prefix, name[k].rng)
       IN /\ results' = Returned(k, r)
          /\ pc' = Return(k, r)
          /\ diagnostics' = IF RangeAnalyses(k, Prefix) = 1
                            THEN diagnostics \cup RangeDiagnostics(k, name[k].rng)
                            ELSE diagnostics
          /\ calls' = [calls EXCEPT
                          !["analyze_sliced_name"][k] =
                              IF IsObjectSelection(Prefix) THEN @ + 1 ELSE @,
                          !["analyze_discrete_range"][k] = @ + RangeAnalyses(k, Prefix)]
    /\ UNCHANGED <<name, err_msg, lookups, visited, run, first, rewrites, pure>>

\* Name::Attribute, line 243
Attribute ==
    /\ At("call", "Attribute")
    /\ results' = Returned(pc.k, Err(pc.k, err_msg))
    /\ pc' = Return(pc.k, Err(pc.k, err_msg))
    /\ visited' = visited \cup {pc.k}
    /\ UNCHANGED <<name, err_msg, diagnostics, calls, lookups, run, first, rewrites, pure>>

\* the node a FunctionCall node is rewritten to, line 247
Rewritten(node) == [Node EXCEPT !.kind = "Indexed", !.idx = node.idx]

\* Name::FunctionCall that rewrites the node and fails without dispatching again
FunctionCallIndexed_NoDispatch ==
    /\ At("call", "FunctionCall")
    /\ to_indexed(name[pc.k])
    /\ name' = [name EXCEPT ![pc.k] = Rewritten(@)]
    /\ visited' = visited \cup {pc.k}
    /\ rewrites' = rewrites \cup {pc.k}
    /\ results' = Returned(pc.k, Err(pc.k, err_msg))
    /\ pc' = Return(pc.k, Err(pc.k, err_msg))
    /\ UNCHANGED <<err_msg, diagnostics, calls, lookups, run, first, pure>>

\* Name::FunctionCall that analyses the arguments before it dispatches again
FunctionCallIndexed_AnalysesArguments ==
    /\ At("call", "FunctionCall")
    /\ to_indexed(name[pc.k])
    /\ name' = [name EXCEPT ![pc.k] = Rewritten(@)]
    /\ visited' = visited \cup {pc.k}
    /\ rewrites' = rewrites \cup {pc.k}
    /\ calls' = [calls EXCEPT !["analyze_expression"][pc.k] = @ + Len(name[pc.k].idx)]
    /\ UNCHANGED <<err_msg, pc, results, diagnostics, lookups, run, first, pure>>

\* Name::FunctionCall that to_indexed accepts, lines 245-248: the node becomes
\* Indexed and the same frame dispatches again with the same name_pos
FunctionCallIndexed ==
    /\ At("call", "FunctionCall")
    /\ to_indexed(name[pc.k])
    /\ name' = [name EXCEPT ![pc.k] = Rewritten(@)]
    /\ visited' = visited \cup {pc.k}
    /\ rewrites' = rewrites \cup {pc.k}
    /\ UNCHANGED <<err_msg, pc, results, diagnostics, calls, lookups, run, first, pure>>

\* Name::FunctionCall that to_indexed rejects, lines 249-251
FunctionCallFails ==
    /\ At("call", "FunctionCall")
    /\ ~to_indexed(name[pc.k])
    /\ results' = Returned(pc.k, Err(pc.k, err_msg))
    /\ pc' = Return(pc.k, Err(pc.k, err_msg))
    /\ visited' = visited \cup {pc.k}
    /\ UNCHANGED <<name, err_msg, diagnostics, calls, lookups, run, first, rewrites, pure>>

\* ExternalResult that takes every external name for a signal
ExternalResult_Signal(k, node) ==
    LET t == resolve_subtype_indication(k, node.subtype) IN
    IF IsOk(t) THEN ExternalName("Signal", t.ent) ELSE t

\* the result of an External node, lines 254-259
ExternalResult(k, node) ==
    LET t == resolve_subtype_indication(k, node.subtype) IN
    IF IsOk(t) THEN ExternalName(node.class, t.ent) ELSE t

\* Name::External, lines 253-260
External ==
    /\ At("call", "External")
    /\ results' = Returned(pc.k, ExternalResult(pc.k, name[pc.k]))
    /\ pc' = Return(pc.k, ExternalResult(pc.k, name[pc.k]))
    /\ calls' = [calls EXCEPT !["resolve_subtype_indication"][pc.k] = @ + 1]
    /\ visited' = visited \cup {pc.k}
    /\ UNCHANGED <<name, err_msg, diagnostics, lookups, run, first, rewrites, pure>>

\* the caller resolves the same name again, with a fresh diagnostics sink
ResolveAgain ==
    /\ pc.mode = "done"
    /\ run = 1
    /\ first' = [res |-> results[N], diagnostics |-> diagnostics, rewrites |-> rewrites,
                 results |-> results, calls |-> calls]
    /\ run' = 2
    /\ pc' = [mode |-> "call", k |-> N]
    /\ results' = NoResults
    /\ diagnostics' = {}
    /\ calls' = NoCalls
    /\ lookups' = NoLookups
    /\ visited' = {}
    /\ rewrites' = {}
    /\ UNCHANGED <<name, err_msg, pure>>

Resolve ==
    \/ CallSelected \/ ReturnSelected
    \/ CallSelectedAll \/ ReturnSelectedAll
    \/ Designator
    \/ CallIndexed \/ ReturnIndexed
    \/ CallSlice \/ ReturnSlice
    \/ Attribute
    \/ FunctionCallIndexed \/ FunctionCallFails
    \/ External

\* one resolution of a name
Next == Resolve

Spec == Init /\ [][Next]_vars

\* two resolutions of the same name in a row
NextTwice == Resolve \/ ResolveAgain

SpecTwice == Init /\ [][NextTwice]_vars

(* ----------------------- with_suffix on its own ------------------------- *)
Objects == {e \in Entities : kind(e) = "Object"}
Types == {e \in Entities : kind(e) = "Type"}

\* the values of ResolvedName
ResolvedNames ==
    {NonObject(e) : e \in Entities} \cup {Type(t) : t \in Types}
    \cup {Overloaded({"m1", "m2"})}
    \cup {ObjectSelection(b, t) : b \in Objects, t \in Types}
    \cup {ExternalName(c, t) : c \in ExternalObjectClass, t \in Types}

InitSuffix ==
    /\ name = <<>>
    /\ err_msg = "Invalid assignment target"
    /\ pc = [mode |-> "pure", k |-> 0]
    /\ results = NoResults
    /\ diagnostics = {}
    /\ calls = NoCalls
    /\ lookups = NoLookups
    /\ visited = {}
    /\ rewrites = {}
    /\ run = 1
    /\ first = NoFirst
    /\ ws_self \in ResolvedNames
    /\ ws_ent \in Entities
    /\ ws_dbg \in BOOLEAN
    /\ ws_out = Blank
    /\ new_out = Blank
    /\ NoList

\* self.with_suffix(ent), lines 53-93
ApplyWithSuffix ==
    /\ pc.mode = "pure"
    /\ ws_out = Blank
    /\ ws_out' = with_suffix(ws_self, ws_ent, ws_dbg)
    /\ UNCHANGED <<walker, ws_self, ws_ent, ws_dbg, new_out, parser>>

\* ResolvedName::new(ent), lines 32-51
ApplyNew ==
    /\ pc.mode = "pure"
    /\ new_out = Blank
    /\ new_out' = new(ws_ent)
    /\ UNCHANGED <<walker, ws_self, ws_ent, ws_dbg, ws_out, parser>>

NextSuffix == ApplyWithSuffix \/ ApplyNew

SpecSuffix == InitSuffix /\ [][NextSuffix]_vars

(* -------------------- parse_list_with_separator ------------------------- *)
\* token kinds: what parse_fn accepts, the separator, the final token, any other
Kinds == {"Identifier", "Comma", "SemiColon", "Other"}
separator == "Comma"
final_token == "SemiColon"

\* the kind of the token at position c, past the end of the stream: none
KindAt(c) == IF c \in 1..Len(stream) THEN stream[c] ELSE "EndOfStream"

\* stream.next_kind_is(kind): looks at the next token, consumes nothing
next_kind_is(c, knd) == KindAt(c) = knd

\* parse_fn succeeds on the token it parses an item from
parse_fn_ok(c) == KindAt(c) = "Identifier"

InitList ==
    /\ name = <<>>
    /\ err_msg = "Invalid assignment target"
    /\ pc = [mode |-> "list", k |-> 0]
    /\ results = NoResults
    /\ diagnostics = {}
    /\ calls = NoCalls
    /\ lookups = NoLookups
    /\ visited = {}
    /\ rewrites = {}
    /\ run = 1
    /\ first = NoFirst
    /\ ws_self = Blank /\ ws_ent = NoEnt /\ ws_dbg = FALSE /\ ws_out = Blank
    /\ new_out = Blank
    /\ \E n \in 0..MaxTokens : stream \in [1..n -> Kinds]
    /\ cursor = 1
    /\ items = <<>>
    /\ tokens = <<>>
    /\ emitted = <<>>
    /\ list_pc = "first"

\* line 29: the first item; `?` returns the error of parse_fn
ParseFirst ==
    /\ list_pc = "first"
    /\ IF parse_fn_ok(cursor)
       THEN /\ items' = <<cursor>>
            /\ cursor' = cursor + 1
            /\ list_pc' = "loop"
       ELSE /\ list_pc' = "Err"
            /\ UNCHANGED <<items, cursor>>
    /\ UNCHANGED <<walker, ws_self, ws_ent, ws_dbg, ws_out, new_out, stream, tokens, emitted>>

\* lines 31 and 39: pop_if_kind returns None, the loop ends and the list is returned
NoSeparator ==
    /\ list_pc = "loop"
    /\ ~next_kind_is(cursor, separator)
    /\ list_pc' = "Ok"
    /\ UNCHANGED <<walker, ws_self, ws_ent, ws_dbg, ws_out, new_out,
                   stream, cursor, items, tokens, emitted>>

\* TrailingSeparator that leaves the loop before it keeps the separator
TrailingSeparator_Dropped ==
    /\ list_pc = "loop"
    /\ next_kind_is(cursor, separator)
    /\ next_kind_is(cursor + 1, final_token)
    /\ cursor' = cursor + 1
    /\ emitted' = Append(emitted, <<cursor, "Trailing comma not allowed">>)
    /\ list_pc' = "Ok"
    /\ UNCHANGED <<walker, ws_self, ws_ent, ws_dbg, ws_out, new_out, stream, items, tokens>>

\* lines 31-36 and 39: the separator is popped and pushed, the final token
\* follows it: one diagnostic at the separator, break, the list is returned
TrailingSeparator ==
    /\ list_pc = "loop"
    /\ next_kind_is(cursor, separator)
    /\ next_kind_is(cursor + 1, final_token)
    /\ tokens' = Append(tokens, cursor)
    /\ cursor' = cursor + 1
    /\ emitted' = Append(emitted, <<cursor, "Trailing comma not allowed">>)
    /\ list_pc' = "Ok"
    /\ UNCHANGED <<walker, ws_self, ws_ent, ws_dbg, ws_out, new_out, stream, items>>

\* lines 31-33 and 37: the separator is popped and pushed, the next item is
\* parsed; `?` returns the error of parse_fn
ParseNextItem ==
    /\ list_pc = "loop"
    /\ next_kind_is(cursor, separator)
    /\ ~next_kind_is(cursor + 1, final_token)
    /\ tokens' = Append(tokens, cursor)
    /\ IF parse_fn_ok(cursor + 1)
       THEN /\ items' = Append(items, cursor + 1)
            /\ cursor' = cursor + 2
            /\ list_pc' = "loop"
       ELSE /\ cursor' = cursor + 1
            /\ list_pc' = "Err"
            /\ UNCHANGED items
    /\ UNCHANGED <<walker, ws_self, ws_ent, ws_dbg, ws_out, new_out, stream, emitted>>

NextList == ParseFirst \/ NoSeparator \/ TrailingSeparator \/ ParseNextItem

SpecList == InitList /\ [][NextList]_vars

(* ------------------------------ properties ----------------------------- *)
Done == pc.mode = "done"

\* the frame of node k has returned in this call
HasReturned(k) == results[k] # Blank

SuffixKinds == {"Selected", "Indexed", "Slice"}

\* C1: a Selected name whose prefix resolved to Type fails with the
\* TypeAsPrefix message, whatever err_msg is and whatever the suffix is.
C1_TypePrefixMessage ==
    \A k \in 2..N :
        (/\ name[k].kind = "Selected"
         /\ HasReturned(k)
         /\ IsOk(results[k - 1]) /\ results[k - 1].tag = "Type")
        => (results[k].st = "Err" /\ results[k].msg = TypeAsPrefix)

\* the entity the innermost designator denotes
Root == lookup(name[1].des).ent

\* the innermost designator looks up to a single declared object
RootIsObject ==
    /\ name[1].kind = "Designator"
    /\ lookup(name[1].des).st = "Single"
    /\ kind(Root) = "Object"

\* the name is built only from Designator, Selected, Indexed and Slice nodes
PureObjectName ==
    /\ rewrites = {}
    /\ \A k \in 1..N : name[k].kind \in {"Designator", "Selected", "Indexed", "Slice"}

\* the type of field d of record type t
FieldType(t, d) == IF t = "rec_t" /\ d = "f" THEN "arr_t" ELSE NoEnt

\* the static type of the name up to node k, NoEnt when a step does not apply
RECURSIVE StaticType(_)
StaticType(k) ==
    IF k = 1 THEN SubtypeTypeMark(Root)
    ELSE LET t == StaticType(k - 1) IN
         CASE name[k].kind = "Selected" -> FieldType(t, name[k].des)
           [] name[k].kind = "Indexed" -> ElemType(t)
           [] name[k].kind = "Slice" -> IF ElemType(t) = NoEnt THEN NoEnt ELSE t
           [] OTHER -> NoEnt

\* every step applies to the type before it and no analysis of an index
\* expression or of a range returns an error
WellTyped ==
    \A k \in 1..N :
        /\ StaticType(k) # NoEnt
        /\ \A i \in 1..Len(name[k].idx) : name[k].idx[i] # "fatal"
        /\ name[k].rng # "fatal"

\* C2 as stated: every name of Designator, Selected, Indexed and Slice nodes
\* rooted at a declared object resolves to Ok(ObjectSelection) of that object
\* and of the type the steps give.
C2_AnyObjectName ==
    (Done /\ PureObjectName /\ RootIsObject)
    => results[N] = ObjectSelection(Root, StaticType(N))

\* C2 amended: such a name resolves to Ok(ObjectSelection) of the root object
\* and of the static type of the chain provided every step applies: each
\* selected suffix is a field of the type so far, each indexed or sliced prefix
\* is an array, and no index or range analysis returns an error.
C2_WellTypedObjectName ==
    (Done /\ PureObjectName /\ RootIsObject /\ WellTyped)
    => results[N] = ObjectSelection(Root, StaticType(N))

C2_Witness ==
    /\ Done /\ PureObjectName /\ RootIsObject /\ WellTyped
    /\ N = 3 /\ name[2].kind = "Selected" /\ name[3].kind = "Indexed"
    /\ results[N] = ObjectSelection("r", "bit_t")

\* C3: a Selected, Indexed or Slice step applied to a prefix that resolved to
\* ObjectSelection and returning ObjectSelection keeps base_object.
C3_BaseObjectFixed ==
    \A k \in 2..N :
        (/\ name[k].kind \in SuffixKinds
         /\ IsObjectSelection(results[k - 1])
         /\ IsObjectSelection(results[k]))
        => results[k].base = results[k - 1].base

C3_Witness ==
    /\ Done /\ N = 3
    /\ name[2].kind = "Selected" /\ name[3].kind = "Slice"
    /\ \A k \in 1..3 : IsObjectSelection(results[k]) /\ results[k].base = "r"
    /\ results[1].type # results[2].type

\* C4 as stated: every Slice node whose frame returned had its range
\* analysed exactly once, whatever the prefix and the slice analysis returned.
C4_RangeAlwaysAnalysed ==
    \A k \in 2..N :
        (name[k].kind = "Slice" /\ HasReturned(k))
        => calls["analyze_discrete_range"][k] = 1

\* the frame of Slice node k returned the error of analyze_sliced_name
SlicedNameFailed(k) ==
    /\ IsObjectSelection(results[k - 1])
    /\ calls["analyze_sliced_name"][k] = 1
    /\ results[k].st = "Err" /\ results[k].msg = "cannot be sliced"

\* C4 amended: the range of a Slice node is analysed exactly once before the
\* call returns, for every outcome of the prefix resolution, except when the
\* prefix resolved to ObjectSelection and the slice analysis returns an error:
\* then that error is returned and the range is not analysed.  It is never
\* analysed twice.
C4_RangeAnalysedOnce ==
    \A k \in 2..N :
        name[k].kind = "Slice" =>
            /\ calls["analyze_discrete_range"][k] <= 1
            /\ HasReturned(k) =>
                   /\ calls["analyze_discrete_range"][k] = 0 <=> SlicedNameFailed(k)
                   /\ calls["analyze_discrete_range"][k] = 1 <=> ~SlicedNameFailed(k)

C4_Witness ==
    /\ Done /\ N = 2 /\ name[2].kind = "Slice"
    /\ results[1].st = "Err"
    /\ calls["analyze_discrete_range"][2] = 1

\* the prefix of node k resolved to anything but Ok(ObjectSelection)
PrefixNotObject(k) == HasReturned(k - 1) /\ ~IsObjectSelection(results[k - 1])

\* C5 as stated: an Indexed node whose prefix is not Ok(ObjectSelection) has
\* every index expression analysed and returns err_msg at the prefix's position.
C5_AllIndexesThenErrMsg ==
    \A k \in 2..N :
        (name[k].kind = "Indexed" /\ HasReturned(k) /\ PrefixNotObject(k))
        => /\ calls["analyze_expression"][k] = Len(name[k].idx)
           /\ results[k] = Err(k - 1, err_msg)

\* C5 amended: the index expressions are analysed in order until one analysis
\* returns an error; when none does, every one was analysed and the call
\* returns err_msg at the prefix's position; otherwise that error is returned
\* in place of err_msg and the later expressions are not analysed.
C5_IndexesUntilError ==
    \A k \in 2..N :
        (name[k].kind = "Indexed" /\ HasReturned(k) /\ PrefixNotObject(k))
        => /\ calls["analyze_indexed_name"][k] = 0
           /\ IF \A i \in 1..Len(name[k].idx) : name[k].idx[i] = "ok"
              THEN /\ calls["analyze_expression"][k] = Len(name[k].idx)
                   /\ results[k] = Err(k - 1, err_msg)
              ELSE /\ calls["analyze_expression"][k] \in 1..Len(name[k].idx)
                   /\ name[k].idx[calls["analyze_expression"][k]] = "fatal"
                   /\ \A i \in 1..(calls["analyze_expression"][k] - 1) :
                          name[k].idx[i] = "ok"
                   /\ results[k] = Fatal(k, "expression")

C5_Witness ==
    /\ Done /\ N = 2 /\ name[2].kind = "Indexed"
    /\ results[1].st = "Err" /\ results[1].msg = "No declaration"
    /\ Len(name[2].idx) = 2
    /\ calls["analyze_expression"][2] = 2
    /\ results[2] = Err(1, err_msg)

\* C6: when the suffix lookup of a Selected name returns an overloaded set,
\* a NonObject prefix gives Ok(Overloaded(set)); an ObjectSelection or
\* ExternalName prefix gives err_msg at name_pos.
C6_OverloadedSuffix ==
    \A k \in 2..N :
        (name[k].kind = "Selected" /\ HasReturned(k) /\ lookups[k].st = "Overloaded")
        => /\ results[k - 1].tag = "NonObject" => results[k] = Overloaded(lookups[k].set)
           /\ results[k - 1].tag \in {"ObjectSelection", "ExternalName"}
                  => results[k] = Err(k, err_msg)
           /\ results[k - 1].tag \in {"NonObject", "ObjectSelection", "ExternalName"}

C6_Witness ==
    /\ Done /\ N = 2 /\ name[2].kind = "Selected"
    /\ results[1].tag = "ExternalName"
    /\ lookups[2].st = "Overloaded"
    /\ results[2] = Err(2, err_msg)

\* C7: the second of two resolutions of the same name in a row returns what
\* the first returned and pushes the same diagnostics to its fresh sink.
C7_SameTwice ==
    (run = 2 /\ Done) => (results[N] = first.res /\ diagnostics = first.diagnostics)

C7_Witness ==
    /\ run = 2 /\ Done
    /\ first.rewrites # {}
    /\ \E k \in 1..N : name[k].ref # NoEnt
    /\ diagnostics # {}
    /\ IsOk(results[N])

\* C8: with_suffix with an Object or ObjectAlias suffix on a state that is not
\* NonObject, or on state Overloaded, panics.
C8_Fatal ==
    (/\ ws_out # Blank
     /\ \/ (kind(ws_ent) \in {"Object", "ObjectAlias"} /\ ws_self.tag # "NonObject")
        \/ ws_self.tag = "Overloaded")
    => ws_out = Panic

\* C9: an External node makes no scope lookup; it returns ExternalName of the
\* name's class and of the resolved subtype's type, or the subtype's error.
C9_External ==
    \A k \in 1..N :
        (name[k].kind = "External" /\ HasReturned(k))
        => /\ \A c \in {"lookup", "lookup_selected", "lookup_type_selected"} :
                  calls[c][k] = 0
           /\ lookups[k] = Unreached
           /\ calls["resolve_subtype_indication"][k] = 1
           /\ IF name[k].subtype \in Types
              THEN results[k] = ExternalName(name[k].class, name[k].subtype)
              ELSE results[k] = Fatal(k, "No declaration of subtype")

C9_Witness ==
    /\ Done /\ N = 1 /\ name[1].kind = "External"
    /\ results[1] = ExternalName("Signal", "rec_t")

\* C10: after the call returned, the reference cell of every visited
\* designator or suffix slot holds the entity this call's lookup for the slot
\* returned as Single, and is cleared in every other case.
C10_References ==
    Done =>
        \A k \in visited :
            name[k].kind \in {"Designator", "Selected"}
            => name[k].ref = IF lookups[k].st = "Single" THEN lookups[k].ent ELSE NoEnt

C10_Witness ==
    /\ Done /\ N = 3
    /\ name[1].ref = Stale /\ 1 \notin visited
    /\ name[3].kind = "Selected" /\ 3 \in visited
    /\ lookups[3] = Unreached /\ name[3].ref = NoEnt

\* the prefix of Slice node k resolved to an object whose type is not an array
SliceOfNonArray(k) ==
    IsObjectSelection(results[k - 1]) /\ ElemType(results[k - 1].type) = NoEnt

\* C12 as stated: a Slice node returns the error of the range analysis when
\* the range is in error, and otherwise exactly what its prefix returned.
C12_RangeErrorOrPrefix ==
    \A k \in 2..N :
        (name[k].kind = "Slice" /\ HasReturned(k))
        => results[k] = IF name[k].rng = "fatal" THEN Fatal(k, "discrete range")
                        ELSE results[k - 1]

\* C12 amended: a Slice node whose prefix resolved to ObjectSelection of a
\* type the slice analysis rejects returns that analysis's error; any other
\* Slice node returns the error of the range analysis when it fails
\* (replacing a prefix error) and otherwise exactly what its prefix returned,
\* the Ok values Type, NonObject, Overloaded and ExternalName included.
C12_SliceErrorRangeErrorOrPrefix ==
    \A k \in 2..N :
        (name[k].kind = "Slice" /\ HasReturned(k))
        => results[k] = IF SliceOfNonArray(k) THEN Fatal(k - 1, "cannot be sliced")
                        ELSE IF name[k].rng = "fatal" THEN Fatal(k, "discrete range")
                        ELSE results[k - 1]

C12_Witness ==
    /\ Done /\ N = 2 /\ name[2].kind = "Slice"
    /\ name[2].rng # "fatal"
    /\ results[1].tag = "Type" /\ IsOk(results[1])
    /\ results[2] = results[1]

\* the prefix of node k resolved to Ok(ExternalName)
PrefixIsExternal(k) == IsOk(results[k - 1]) /\ results[k - 1].tag = "ExternalName"

\* what an Indexed node returns for an object prefix: the object with the
\* element type the index analysis returned, or the error of that analysis
IndexedObject(k) ==
    LET e == analyze_indexed_name(k, results[k - 1].type, name[k].idx) IN
    /\ calls["analyze_indexed_name"][k] = 1
    /\ IF IsOk(e) THEN results[k] = ObjectSelection(results[k - 1].base, e.ent)
                  ELSE results[k] = e
    /\ IsOk(results[k]) => results[k].type = ElemType(results[k - 1].type)

\* C13 as stated: an Indexed node returns Ok only for an ObjectSelection
\* prefix whose index analysis succeeded, the result being the same base
\* object with the element type; an index-analysis error is returned as is;
\* an ExternalName prefix is not indexed and the call fails with err_msg.
C13_IndexedExternalErrMsg ==
    \A k \in 2..N :
        (name[k].kind = "Indexed" /\ HasReturned(k))
        => /\ IsOk(results[k]) => IsObjectSelection(results[k - 1])
           /\ IsObjectSelection(results[k - 1]) => IndexedObject(k)
           /\ PrefixIsExternal(k)
                  => /\ calls["analyze_indexed_name"][k] = 0
                     /\ results[k] = Err(k - 1, err_msg)

\* C13 amended: an Indexed node returns Ok only for an ObjectSelection prefix
\* whose index analysis succeeded, the result being the same base object with
\* the element type; an index-analysis error is returned as is; an
\* ExternalName prefix is not indexed and the call fails, with err_msg when no
\* analysis of an index expression returns an error and with the first such
\* error otherwise.
C13_IndexedExternalFails ==
    \A k \in 2..N :
        (name[k].kind = "Indexed" /\ HasReturned(k))
        => /\ IsOk(results[k]) => IsObjectSelection(results[k - 1])
           /\ IsObjectSelection(results[k - 1]) => IndexedObject(k)
           /\ PrefixIsExternal(k)
                  => /\ calls["analyze_indexed_name"][k] = 0
                     /\ results[k] = IF \A i \in 1..Len(name[k].idx) : name[k].idx[i] = "ok"
                                     THEN Err(k - 1, err_msg)
                                     ELSE Fatal(k, "expression")

C13_Witness ==
    /\ Done /\ N = 2 /\ name[2].kind = "Indexed"
    /\ results[1] = ExternalName("Signal", "arr_t")
    /\ name[2].idx = <<"ok">>
    /\ calls["analyze_indexed_name"][2] = 0
    /\ results[2] = Err(1, err_msg)

\* C14: a Selected node whose prefix resolved to Type or to Overloaded fails
\* with err_msg at name_pos; no suffix lookup is made, with_suffix is not
\* called and the suffix's reference stays cleared.
C14_NoSuffixStep ==
    \A k \in 2..N :
        (/\ name[k].kind = "Selected" /\ HasReturned(k)
         /\ IsOk(results[k - 1]) /\ results[k - 1].tag \in {"Type", "Overloaded"})
        => /\ results[k] = Err(k, err_msg)
           /\ \A c \in {"lookup", "lookup_selected", "lookup_type_selected", "with_suffix"} :
                  calls[c][k] = 0
           /\ lookups[k] = Unreached
           /\ name[k].ref = NoEnt

C14_Witness ==
    /\ Done /\ N = 3
    /\ name[2].kind = "Selected" /\ name[3].kind = "Selected"
    /\ results[1].tag = "NonObject" /\ results[2].tag = "Overloaded"
    /\ name[3].des = "f"
    /\ results[3] = Err(3, err_msg)
    /\ name[3].ref = NoEnt /\ calls["with_suffix"][3] = 0

\* the diagnostics pushed for the nodes up to k
DiagnosticsUpTo(ds, k) == {d \in ds : d[1] <= k}

\* the arguments of node k went to the collaborators once: as one list to the
\* index analysis, or one by one to the expression analysis, the first n of them
ArgumentsAnalysed(k, n) ==
    \/ calls["analyze_indexed_name"][k] = 1 /\ calls["analyze_expression"][k] = 0
    \/ calls["analyze_indexed_name"][k] = 0 /\ calls["analyze_expression"][k] = n

\* a rewritten FunctionCall node against the direct resolution of the Indexed
\* node it became, which is what the second run resolves
SameAsIndexed ==
    /\ \A k \in rewrites \cup first.rewrites :
           name[k] = [Node EXCEPT !.kind = "Indexed", !.idx = name[k].idx]
    /\ run = 2 =>
           \A k \in first.rewrites :
               HasReturned(k)
               => /\ rewrites = {}
                  /\ results[k] = first.results[k]
                  /\ DiagnosticsUpTo(diagnostics, k) = DiagnosticsUpTo(first.diagnostics, k)
                  /\ \A c \in Collaborators : \A j \in 1..k :
                         calls[c][j] = first.calls[c][j]

\* a FunctionCall node that to_indexed rejects
NotIndexable ==
    \A k \in 1..N :
        (name[k].kind = "FunctionCall" /\ HasReturned(k))
        => /\ results[k] = Err(k, err_msg)
           /\ ~to_indexed(name[k]) /\ k \notin rewrites
           /\ \A c \in Collaborators : calls[c][k] = 0

\* C15 as stated: a FunctionCall node that to_indexed accepts is an Indexed
\* node from then on; its resolution returns what the direct resolution of
\* that Indexed node returns, with the same diagnostics, and every argument
\* is analysed once; a FunctionCall node that to_indexed rejects fails with
\* err_msg at name_pos and stays a FunctionCall.
C15_EachArgumentOnce ==
    /\ SameAsIndexed
    /\ NotIndexable
    /\ \A k \in rewrites :
           HasReturned(k) => ArgumentsAnalysed(k, Len(name[k].idx))

\* C15 amended: a FunctionCall node that to_indexed accepts is an Indexed
\* node from then on; its resolution returns what the direct resolution of
\* that Indexed node returns, with the same diagnostics and the same
\* collaborator calls: no argument is analysed twice, and none after the first
\* argument whose analysis returned an error; a FunctionCall node that
\* to_indexed rejects fails with err_msg at name_pos and stays a FunctionCall.
C15_FunctionCallAsIndexed ==
    /\ SameAsIndexed
    /\ NotIndexable
    /\ \A k \in rewrites :
           HasReturned(k) => ArgumentsAnalysed(k, Analysed(name[k].idx))

C15_Witness ==
    /\ run = 2 /\ Done /\ N = 3
    /\ first.rewrites = {3}
    /\ name[3].kind = "Indexed" /\ Len(name[3].idx) = 2
    /\ results[3] = ObjectSelection("r", "bit_t")
    /\ first.results[3] = results[3]
    /\ diagnostics = {<<3, "dimension mismatch">>}

C17_Classify ==
    new_out # Blank
    => /\ IsOk(new_out)
       /\ kind(ws_ent) = "Object"
              => new_out = ObjectSelection(ws_ent, SubtypeTypeMark(ws_ent))
       /\ kind(ws_ent) = "ObjectAlias"
              => /\ new_out = ObjectSelection(AliasBaseObject(ws_ent), AliasTypeMark(ws_ent))
                 /\ new_out.base # ws_ent /\ kind(new_out.base) = "Object"
       /\ kind(ws_ent) = "Type" => new_out = Type(ws_ent)
       /\ kind(ws_ent) \notin {"Object", "ObjectAlias", "Type"}
              => new_out = NonObject(ws_ent)

C17_Witness ==
    /\ ws_ent = "a" /\ kind(ws_ent) = "ObjectAlias"
    /\ new_out = ObjectSelection("r", "rec_t")

\* the positions of a sequence of tokens rise
InOrder(sq) == \A i \in 1..(Len(sq) - 1) : sq[i] < sq[i + 1]

\* the last separator pushed is directly followed by final_token
TrailingSeparatorSeen ==
    Len(tokens) > 0 /\ next_kind_is(tokens[Len(tokens)] + 1, final_token)

\* C11: when parse_list_with_separator returns Ok there is at least one item,
\* the items are in input order and tokens holds every consumed separator in
\* order; there is one token less than items when no diagnostic was emitted,
\* and as many tokens as items exactly when a separator was directly followed
\* by final_token: then one "Trailing comma not allowed" diagnostic was
\* emitted at that separator and final_token is the next token, not consumed.
\* A stream that does not start with an item gives Err.
C11_SeparatedList ==
    /\ list_pc = "Ok" =>
           /\ Len(items) >= 1
           /\ items[1] = 1 /\ InOrder(items) /\ InOrder(tokens)
           /\ \A i \in 1..Len(items) : stream[items[i]] = "Identifier"
           /\ {tokens[i] : i \in 1..Len(tokens)}
                  = {c \in 1..(cursor - 1) : stream[c] = separator}
           /\ \A i \in 1..Len(tokens) :
                  /\ items[i] < tokens[i]
                  /\ i < Len(items) => tokens[i] < items[i + 1]
           /\ Len(tokens) \in {Len(items) - 1, Len(items)}
           /\ emitted = <<>> => Len(tokens) = Len(items) - 1
           /\ Len(tokens) = Len(items) <=> TrailingSeparatorSeen
           /\ TrailingSeparatorSeen
                  => /\ emitted = << <<tokens[Len(tokens)], "Trailing comma not allowed">> >>
                     /\ cursor = tokens[Len(tokens)] + 1
                     /\ next_kind_is(cursor, final_token)
    /\ (list_pc \in {"loop", "Ok", "Err"} /\ ~parse_fn_ok(1)) => list_pc = "Err"

C11_Witness ==
    /\ list_pc = "Ok"
    /\ Len(items) = 2 /\ Len(tokens) = 2
    /\ emitted = << <<4, "Trailing comma not allowed">> >>
    /\ cursor = 5 /\ stream[5] = final_token

====
